---------------------------- MODULE Spec2Model ----------------------------
(***************************************************************************)
(* Model of the pyrogen launcher shim, python/pyrogen_check/__main__.py.   *)
(*                                                                         *)
(* One run of the module is one linear program: find_pyrogen_bin() looks   *)
(* for the pyrogen executable in the default-scheme scripts directory and  *)
(* then in the user-scheme scripts directory, the main block hands the     *)
(* result and sys.argv[1:] to subprocess.run, and sys.exit relays the      *)
(* child's return code.  pc names the source line executed next.           *)
(***************************************************************************)
EXTENDS Integers, Sequences, FiniteSets, TLC

VARIABLES
    platform,     \* the host: "posix" or "windows" (decides EXE, paths, exit width)
    fs,           \* the filesystem: path -> "absent" | "dir" | "file" | "exe"
    argv,         \* sys.argv: program name followed by the caller's arguments
    pc,           \* "L10","L12","L16","L22","L27","wait","L28","done"
    pyrogen_exe,  \* local of find_pyrogen_bin, line 10
    path,         \* local of find_pyrogen_bin, lines 12 and 18
    checks,       \* the is_file() calls made so far: <<[path, seen]>>
    pyrogen,      \* what find_pyrogen_bin returned ("" before it returns)
    exception,    \* <<>> or <<type, argument>> of the uncaught exception
    spawns,       \* the argument lists handed to subprocess.run so far
    child,        \* "none" | "running" | "terminated"
    childStatus,  \* <<>> or <<rc>>: how the child terminated (Popen's view)
    returncode,   \* <<>> or <<rc>>: completed_process.returncode
    exitStatus,   \* <<>> or <<n>>: the status the launcher's parent observes
    envSteps      \* number of modifications made by other processes

vars == <<platform, fs, argv, pc, pyrogen_exe, path, checks, pyrogen, exception,
          spawns, child, childStatus, returncode, exitStatus, envSteps>>

---------------------------------------------------------------------------
(* Bounds of the model.                                                    *)

\* at most this many caller arguments follow the program name
MaxArgs == 2

\* at most this many filesystem modifications by other processes in one run
MaxEnvSteps == 1

---------------------------------------------------------------------------
(* The host environment.                                                   *)

Platforms == {"posix", "windows"}

\* mutant of EXE: the platform's suffix is left out
EXE_NoSuffix(plat) == ""

\* sysconfig.get_config_var("EXE")
EXE(plat) == IF plat = "windows" THEN ".exe" ELSE ""

\* the separator pathlib puts between the components of Path(a) / b
Sep(plat) == IF plat = "windows" THEN "\\" ELSE "/"

\* sysconfig.get_path("scripts")
ScriptsDir(plat) == IF plat = "windows" THEN "C:\\venv\\Scripts" ELSE "/venv/bin"

\* sysconfig.get_path("scripts", scheme=sysconfig.get_preferred_scheme("user"))
UserScriptsDir(plat) ==
    IF plat = "windows" THEN "C:\\Users\\u\\Python\\Scripts" ELSE "/home/u/.local/bin"

\* Path(dir) / name
JoinPath(plat, dir, name) == dir \o Sep(plat) \o name

\* "pyrogen" + sysconfig.get_config_var("EXE")
PyrogenExe(plat) == "pyrogen" \o EXE(plat)

\* the file names that may lie in a scripts directory
FileNames == {"pyrogen", "pyrogen.exe"}

FileKinds == {"absent", "dir", "file", "exe"}

\* every path of the modelled filesystem on a platform
AllPaths(plat) ==
    {JoinPath(plat, d, n) : d \in {ScriptsDir(plat), UserScriptsDir(plat)}, n \in FileNames}

\* Path.is_file(): an existing regular file, executable or not
IsFile(f, p) == f[p] \in {"file", "exe"}

\* the caller's argument strings (opaque to the launcher)
ArgStrings == {"--version", "check"}

\* sys.argv: the program name, then zero or more arguments
ArgVectors ==
    {<<"__main__.py">> \o s : s \in UNION {[1..n -> ArgStrings] : n \in 0..MaxArgs}}

\* Popen.returncode of a terminated child: the exit code, or -N when signal N
\* killed it (POSIX only)
ChildStatuses(plat) ==
    IF plat = "windows" THEN {0, 1, 2, 255} ELSE {0, 1, 2, 255, -9, -15}

\* the status the interpreter ends with on an uncaught exception
UnhandledExit == 1

\* sys.exit(rc): the status the parent of the launcher observes; POSIX keeps
\* the low 8 bits of the value handed to exit()
ExitStatus(plat, rc) == IF plat = "windows" THEN rc ELSE rc % 256

\* the exception Popen raises for a path that cannot be executed
LaunchError(plat, kind) ==
    IF kind = "absent" THEN "FileNotFoundError"
    ELSE IF plat = "windows" /\ kind = "file" THEN "OSError"
    ELSE "PermissionError"

---------------------------------------------------------------------------
(* Initial state: the module is about to run as __main__.                  *)

Init ==
    /\ platform \in Platforms
    /\ fs \in UNION {[AllPaths(p) -> FileKinds] : p \in Platforms}
    /\ DOMAIN fs = AllPaths(platform)
    /\ argv \in ArgVectors
    /\ pc = "L10"
    /\ pyrogen_exe = ""
    /\ path = ""
    /\ checks = <<>>
    /\ pyrogen = ""
    /\ exception = <<>>
    /\ spawns = <<>>
    /\ child = "none"
    /\ childStatus = <<>>
    /\ returncode = <<>>
    /\ exitStatus = <<>>
    /\ envSteps = 0

---------------------------------------------------------------------------
(* find_pyrogen_bin                                                        *)

\* line 10: pyrogen_exe = "pyrogen" + sysconfig.get_config_var("EXE")
ComputeExe ==
    /\ pc = "L10"
    /\ pyrogen_exe' = PyrogenExe(platform)
    /\ pc' = "L12"
    /\ UNCHANGED <<platform, fs, argv, path, checks, pyrogen, exception, spawns,
                   child, childStatus, returncode, exitStatus, envSteps>>

\* mutant of CheckPrimary: a found path is kept but the search goes on
CheckPrimary_NoShortCircuit ==
    /\ pc = "L12"
    /\ LET p == JoinPath(platform, ScriptsDir(platform), pyrogen_exe) IN
        /\ path' = p
        /\ checks' = Append(checks, [path |-> p, seen |-> fs[p]])
        /\ pyrogen' = IF IsFile(fs, p) THEN p ELSE pyrogen
        /\ pc' = "L16"
    /\ UNCHANGED <<platform, fs, argv, pyrogen_exe, exception, spawns,
                   child, childStatus, returncode, exitStatus, envSteps>>

\* lines 12-14: the default-scheme scripts directory
CheckPrimary ==
    /\ pc = "L12"
    /\ LET p == JoinPath(platform, ScriptsDir(platform), pyrogen_exe) IN
        /\ path' = p
        /\ checks' = Append(checks, [path |-> p, seen |-> fs[p]])
        /\ IF IsFile(fs, p)
              THEN pyrogen' = p /\ pc' = "L27"
              ELSE pyrogen' = pyrogen /\ pc' = "L16"
    /\ UNCHANGED <<platform, fs, argv, pyrogen_exe, exception, spawns,
                   child, childStatus, returncode, exitStatus, envSteps>>

\* mutant of CheckFallback: scheme=user_scheme is left out, so the default
\* scripts directory is looked at again
CheckFallback_DefaultScheme ==
    /\ pc = "L16"
    /\ LET p == JoinPath(platform, ScriptsDir(platform), pyrogen_exe) IN
        /\ path' = p
        /\ checks' = Append(checks, [path |-> p, seen |-> fs[p]])
        /\ IF IsFile(fs, p)
              THEN pyrogen' = p /\ pc' = "L27"
              ELSE pyrogen' = pyrogen /\ pc' = "L22"
    /\ UNCHANGED <<platform, fs, argv, pyrogen_exe, exception, spawns,
                   child, childStatus, returncode, exitStatus, envSteps>>

\* mutant of CheckFallback: the path is returned without the is_file() test
CheckFallback_Unchecked ==
    /\ pc = "L16"
    /\ LET p == JoinPath(platform, UserScriptsDir(platform), pyrogen_exe) IN
        /\ path' = p
        /\ checks' = Append(checks, [path |-> p, seen |-> fs[p]])
        /\ pyrogen' = p
        /\ pc' = "L27"
    /\ UNCHANGED <<platform, fs, argv, pyrogen_exe, exception, spawns,
                   child, childStatus, returncode, exitStatus, envSteps>>

\* lines 16-20: the user-scheme scripts directory
CheckFallback ==
    /\ pc = "L16"
    /\ LET p == JoinPath(platform, UserScriptsDir(platform), pyrogen_exe) IN
        /\ path' = p
        /\ checks' = Append(checks, [path |-> p, seen |-> fs[p]])
        /\ IF IsFile(fs, p)
              THEN pyrogen' = p /\ pc' = "L27"
              ELSE pyrogen' = pyrogen /\ pc' = "L22"
    /\ UNCHANGED <<platform, fs, argv, pyrogen_exe, exception, spawns,
                   child, childStatus, returncode, exitStatus, envSteps>>

\* mutant of RaiseNotFound: the error carries the first path looked at
RaiseNotFound_FirstPath ==
    /\ pc = "L22"
    /\ exception' = <<"FileNotFoundError", checks[1].path>>
    /\ exitStatus' = <<UnhandledExit>>
    /\ pc' = "done"
    /\ UNCHANGED <<platform, fs, argv, pyrogen_exe, path, checks, pyrogen, spawns,
                   child, childStatus, returncode, envSteps>>

\* mutant of RaiseNotFound: the last path is returned instead of raising
RaiseNotFound_Returns ==
    /\ pc = "L22"
    /\ pyrogen' = path
    /\ pc' = "L27"
    /\ UNCHANGED <<platform, fs, argv, pyrogen_exe, path, checks, exception, spawns,
                   child, childStatus, returncode, exitStatus, envSteps>>

\* line 22: raise FileNotFoundError(path); nothing catches it, so the
\* interpreter ends the program
RaiseNotFound ==
    /\ pc = "L22"
    /\ exception' = <<"FileNotFoundError", path>>
    /\ exitStatus' = <<UnhandledExit>>
    /\ pc' = "done"
    /\ UNCHANGED <<platform, fs, argv, pyrogen_exe, path, checks, pyrogen, spawns,
                   child, childStatus, returncode, envSteps>>

---------------------------------------------------------------------------
(* the main block                                                          *)

\* mutant of ChildCommand: [pyrogen, *sys.argv], the program name included
ChildCommand_WholeArgv(bin, av) == <<bin>> \o av

\* the list handed to subprocess.run: [pyrogen, *sys.argv[1:]]
ChildCommand(bin, av) == <<bin>> \o Tail(av)

\* mutant of Spawn: a launch failure is caught and the search resumes in the
\* user-scheme directory
Spawn_FallsBack ==
    /\ pc = "L27"
    /\ spawns' = Append(spawns, ChildCommand(pyrogen, argv))
    /\ IF fs[pyrogen] = "exe"
          THEN child' = "running" /\ pc' = "wait"
          ELSE child' = child /\ pc' = "L16"
    /\ UNCHANGED <<platform, fs, argv, pyrogen_exe, path, checks, pyrogen, exception,
                   exitStatus, childStatus, returncode, envSteps>>

\* line 27, first half: subprocess.run starts the child, or Popen raises and
\* nothing catches it
Spawn ==
    /\ pc = "L27"
    /\ spawns' = Append(spawns, ChildCommand(pyrogen, argv))
    /\ IF fs[pyrogen] = "exe"
          THEN /\ child' = "running"
               /\ pc' = "wait"
               /\ UNCHANGED <<exception, exitStatus>>
          ELSE /\ exception' = <<LaunchError(platform, fs[pyrogen]), pyrogen>>
               /\ exitStatus' = <<UnhandledExit>>
               /\ pc' = "done"
               /\ UNCHANGED child
    /\ UNCHANGED <<platform, fs, argv, pyrogen_exe, path, checks, pyrogen,
                   childStatus, returncode, envSteps>>

\* the child process terminates (its own doing, or a signal's)
ChildExit ==
    /\ child = "running"
    /\ \E s \in ChildStatuses(platform) : childStatus' = <<s>>
    /\ child' = "terminated"
    /\ UNCHANGED <<platform, fs, argv, pc, pyrogen_exe, path, checks, pyrogen,
                   exception, spawns, returncode, exitStatus, envSteps>>

\* mutant of Wait: the child is started but not waited for (Popen in place of
\* run), and a child still running counts as status 0
Wait_NoBlock ==
    /\ pc = "wait"
    /\ returncode' = IF child = "terminated" THEN childStatus ELSE <<0>>
    /\ pc' = "L28"
    /\ UNCHANGED <<platform, fs, argv, pyrogen_exe, path, checks, pyrogen,
                   exception, spawns, child, childStatus, exitStatus, envSteps>>

\* line 27, second half: subprocess.run blocks until the child has terminated
\* and returns the CompletedProcess
Wait ==
    /\ pc = "wait"
    /\ child = "terminated"
    /\ returncode' = childStatus
    /\ pc' = "L28"
    /\ UNCHANGED <<platform, fs, argv, pyrogen_exe, path, checks, pyrogen,
                   exception, spawns, child, childStatus, exitStatus, envSteps>>

\* line 28: sys.exit(completed_process.returncode)
Exit ==
    /\ pc = "L28"
    /\ exitStatus' = <<ExitStatus(platform, returncode[1])>>
    /\ pc' = "done"
    /\ UNCHANGED <<platform, fs, argv, pyrogen_exe, path, checks, pyrogen,
                   exception, spawns, child, childStatus, returncode, envSteps>>

---------------------------------------------------------------------------
(* Other processes of the host create, remove or replace files in the      *)
(* scripts directories while the launcher runs.                            *)

EnvChange ==
    /\ pc \in {"L10", "L12", "L16", "L22", "L27"}
    /\ envSteps < MaxEnvSteps
    /\ \E p \in DOMAIN fs, k \in FileKinds :
          /\ k # fs[p]
          /\ fs' = [fs EXCEPT ![p] = k]
    /\ envSteps' = envSteps + 1
    /\ UNCHANGED <<platform, argv, pc, pyrogen_exe, path, checks, pyrogen,
                   exception, spawns, child, childStatus, returncode, exitStatus>>

---------------------------------------------------------------------------
(* Specifications.                                                         *)

\* the steps of the launcher itself
Launcher ==
    \/ ComputeExe
    \/ CheckPrimary
    \/ CheckFallback
    \/ RaiseNotFound
    \/ Spawn
    \/ Wait
    \/ Exit

Next == Launcher \/ ChildExit

\* a run on a filesystem nobody else touches
Spec == Init /\ [][Next]_vars

NextRace == Next \/ EnvChange

\* a run with other processes modifying the scripts directories
RaceSpec == Init /\ [][NextRace]_vars

\* the interpreter keeps executing the launcher; the child may run forever
LiveSpec == Init /\ [][Next]_vars /\ WF_vars(Launcher)

---------------------------------------------------------------------------
(* Properties.                                                             *)

\* the two candidate paths of the host, as the documentation names them
PrimaryCandidate == JoinPath(platform, ScriptsDir(platform), PyrogenExe(platform))
FallbackCandidate == JoinPath(platform, UserScriptsDir(platform), PyrogenExe(platform))

\* find_pyrogen_bin has returned or raised
ResolverDone == pc \notin {"L10", "L12", "L16"}

\* C1: when the primary scripts directory holds the candidate as a regular
\* file, find_pyrogen_bin returns the primary path and is_file() is never
\* called on the fallback path, whatever the fallback directory holds.
C1_PrimaryShortCircuit ==
    IsFile(fs, PrimaryCandidate) =>
        /\ \A i \in DOMAIN checks : checks[i].path # FallbackCandidate
        /\ pc # "L16" /\ pc # "L22"
        /\ ResolverDone => pyrogen = PrimaryCandidate

C1_Witness ==
    /\ IsFile(fs, PrimaryCandidate)
    /\ IsFile(fs, FallbackCandidate)
    /\ pyrogen = PrimaryCandidate
    /\ Len(checks) = 1
    /\ pc = "done"

\* C2: when the primary directory has no regular file of the candidate's name
\* and the user-scheme directory has one, find_pyrogen_bin returns the
\* fallback path and raises nothing.
C2_FallbackFound ==
    (~IsFile(fs, PrimaryCandidate) /\ IsFile(fs, FallbackCandidate) /\ ResolverDone) =>
        /\ pyrogen = FallbackCandidate
        /\ pc # "L22"
        /\ (exception # <<>> => exception[1] # "FileNotFoundError")

C2_Witness ==
    /\ ~IsFile(fs, PrimaryCandidate)
    /\ fs[PrimaryCandidate] = "dir"
    /\ IsFile(fs, FallbackCandidate)
    /\ pyrogen = FallbackCandidate
    /\ pc = "L27"

\* C3: when neither directory holds the candidate as a regular file,
\* find_pyrogen_bin returns no path and raises FileNotFoundError carrying the
\* fallback path (not the primary one); and it raises in no other case.
C3_NotFound ==
    /\ (~IsFile(fs, PrimaryCandidate) /\ ~IsFile(fs, FallbackCandidate) /\ pc = "done") =>
          /\ pyrogen = ""
          /\ exception = <<"FileNotFoundError", FallbackCandidate>>
          /\ exception[2] # PrimaryCandidate
    /\ (pc = "L22" \/ (exception # <<>> /\ pyrogen = "")) =>
          (~IsFile(fs, PrimaryCandidate) /\ ~IsFile(fs, FallbackCandidate))

C3_Witness ==
    /\ fs[PrimaryCandidate] = "absent"
    /\ fs[FallbackCandidate] = "dir"
    /\ pc = "done"
    /\ pyrogen = ""
    /\ exception # <<>>

\* C4: once the child has been launched and has terminated, the launcher ends
\* with an exit status equal to the child's return code, for every return code
\* the child can end with, negative ones (death by signal) included.
C4_ExactStatus ==
    (pc = "done" /\ returncode # <<>>) => exitStatus = returncode

\* C5: the child is spawned with the resolved path as the program followed by
\* exactly sys.argv[1:]: same length, same elements, same order, the
\* launcher's own program name left out.
C5_ArgsVerbatim ==
    \A k \in DOMAIN spawns :
        /\ pyrogen # ""
        /\ spawns[k][1] = pyrogen
        /\ Len(spawns[k]) = Len(argv)
        /\ \A i \in 2..Len(argv) : spawns[k][i] = argv[i]

C5_Witness ==
    /\ Len(spawns) = 1
    /\ Len(argv) = 3
    /\ argv[2] # argv[3]
    /\ child = "running"

\* C6: when neither directory holds the candidate, no spawn is ever attempted
\* and the launcher ends with a non-zero exit status.
C6_NoSpawnOnFailure ==
    (~IsFile(fs, PrimaryCandidate) /\ ~IsFile(fs, FallbackCandidate)) =>
        /\ spawns = <<>>
        /\ child = "none"
        /\ pc \in {"L10", "L12", "L16", "L22", "done"}
        /\ pc = "done" => (exitStatus # <<>> /\ exitStatus[1] # 0)

C6_Witness ==
    /\ ~IsFile(fs, PrimaryCandidate)
    /\ ~IsFile(fs, FallbackCandidate)
    /\ Len(argv) > 1
    /\ pc = "done"
    /\ exitStatus = <<1>>

\* a spawn was attempted on a path that cannot be executed
LaunchFailed == spawns # <<>> /\ fs[spawns[1][1]] # "exe"

\* C7: when the resolved path cannot be executed, the launch failure is not
\* swallowed: the launcher ends at once with an uncaught exception and a
\* non-zero exit status, after one spawn attempt and with no further lookup.
C7_LaunchFailureFatal ==
    LaunchFailed =>
        /\ pc = "done"
        /\ exception # <<>>
        /\ exitStatus # <<>> /\ exitStatus[1] # 0
        /\ Len(spawns) = 1
        /\ child = "none"
        /\ (pyrogen = PrimaryCandidate => Len(checks) = 1)
        /\ Len(checks) <= 2

C7_Witness ==
    /\ LaunchFailed
    /\ pyrogen = PrimaryCandidate
    /\ fs[PrimaryCandidate] = "file"
    /\ fs[FallbackCandidate] = "exe"
    /\ pc = "done"

\* C8: the candidate file name is "pyrogen" followed by the platform's
\* executable suffix (none on POSIX, ".exe" on Windows), and both lookups use
\* that same name.
C8_CandidateName ==
    LET name == IF platform = "windows" THEN "pyrogen.exe" ELSE "pyrogen" IN
        /\ pc # "L10" => pyrogen_exe = name
        /\ \A i \in DOMAIN checks :
              checks[i].path =
                 (IF i = 1 THEN ScriptsDir(platform) ELSE UserScriptsDir(platform))
                    \o Sep(platform) \o name

C8_Witness ==
    /\ platform = "windows"
    /\ Len(checks) = 2
    /\ checks[1].path = "C:\\venv\\Scripts\\pyrogen.exe"
    /\ checks[2].path = "C:\\Users\\u\\Python\\Scripts\\pyrogen.exe"

\* the order of one run: resolve, spawn, wait, exit
C9_Linear ==
    /\ Len(spawns) <= 1
    /\ spawns # <<>> => (pyrogen # "" /\ ResolverDone /\ pc # "L22")
    /\ Len(checks) <= 2
    /\ \A i, j \in DOMAIN checks : i # j => checks[i].path # checks[j].path
    /\ child # "none" => spawns # <<>>
    /\ pc \in {"wait", "L28"} => child # "none"
    /\ returncode # <<>> => (child = "terminated" /\ returncode = childStatus)
    /\ (pc = "done" /\ exception = <<>>) => (child = "terminated" /\ returncode # <<>>)

\* C9: every run is the linear sequence resolve, spawn, wait, exit: a spawn
\* only after the resolver returned a path, at most one spawn, each directory
\* looked at at most once, no child-derived exit before the child has
\* terminated; and once the child has terminated the launcher terminates.
C9_LinearRun == []C9_Linear /\ (child = "terminated" ~> pc = "done")

C9_Witness ==
    /\ pc = "done"
    /\ Len(checks) = 2
    /\ Len(spawns) = 1
    /\ child = "terminated"
    /\ exitStatus = returncode

\* C10 as stated: at the moment of the spawn the resolved path is a regular
\* file, other processes modifying the directories or not.
C10_ExistsAtSpawn == pc = "L27" => IsFile(fs, pyrogen)

\* C10, amended: at the moment of the spawn the resolved path is the one the
\* resolver's last is_file() call saw as a regular file; it is still a regular
\* file then when no other process has modified the directories meanwhile.
C10_ExistedAtCheck ==
    pc = "L27" =>
        /\ checks # <<>>
        /\ checks[Len(checks)].path = pyrogen
        /\ checks[Len(checks)].seen \in {"file", "exe"}
        /\ envSteps = 0 => IsFile(fs, pyrogen)

C10_Witness ==
    /\ pc = "L27"
    /\ envSteps > 0
    /\ checks[Len(checks)].path = pyrogen
    /\ fs[pyrogen] = "absent"

===========================================================================
